---- MODULE Spec2Model ----
(***************************************************************************)
(* Model of buildings-example/train.py: the epoch loop that trains,        *)
(* validates, selects the best epoch by validation loss and saves the      *)
(* TorchScript checkpoint.                                                 *)
(*                                                                         *)
(* Numbers.  Losses are kept as exact fractions <<numerator, denominator>> *)
(* (the script divides the accumulated total by the dataset length), and   *)
(* compared by cross multiplication.  Scores are in tenths (3 = 0.3), the  *)
(* per-example binary cross-entropy is in thousandths, metrics are in      *)
(* units of 1e-4 (the script rounds them to 4 decimals).                   *)
(*                                                                         *)
(* The model parameters are abstracted to the number of optimizer steps    *)
(* applied so far: two parameter states are equal iff the same number of   *)
(* steps produced them.                                                    *)
(***************************************************************************)
EXTENDS Integers, Sequences, FiniteSets, TLC

\* ---------------------------------------------------------------- bounds
MaxEpochs == 3
MaxBatchSize == 2
MaxData == 2

\* Scores the predictor may emit for an example, in tenths.
Scores == {3, 7}
\* loss.item() values the criterion may return for a training batch.
TrainLossItems == {1, 2}

VARIABLES
    \* configuration (lines 51-75)
    num_epochs, batch_size, wandb_enabled, nTrain, nVal, nPos,
    \* loop state
    pc, epoch, params,
    lowest_validation_loss, metrics,
    total_train_loss, total_val_loss, y_true, y_score, y_pred,
    train_pos, val_pos, val_loss,
    disk, printed,
    \* history (not read by the program)
    train_n, val_n, train_iter, val_iter,
    val_params, val_epoch,
    val_history, best_history, metrics_history, firedEpochs, writes, abort_cause

config == <<num_epochs, batch_size, wandb_enabled, nTrain, nVal, nPos>>
trainAcc == <<total_train_loss, train_pos, train_n, train_iter>>
valAcc == <<total_val_loss, y_true, y_score, y_pred, val_pos, val_n, val_iter,
            val_params, val_epoch>>
best == <<lowest_validation_loss, metrics, val_loss, val_history, best_history,
          metrics_history, firedEpochs>>
vars == <<config, pc, epoch, params, trainAcc, valAcc, best, disk, printed, writes,
          abort_cause>>

\* ---------------------------------------------------------------- values
None == <<>>
EmptyMetrics == [k \in {} |-> 0]
NoFile == [state |-> "none", params |-> -1, epoch |-> -1]
\* a checkpoint left under the same model name by an earlier run
StaleFile == [state |-> "complete", params |-> -1, epoch |-> -1]

Min2(a, b) == IF a < b THEN a ELSE b

\* exact comparison of two fractions with positive denominators
Less(a, b) == a[1] * b[2] < b[1] * a[2]
Same(a, b) == a[1] * b[2] = b[1] * a[2]

\* label of the i-th validation example (val_dataloader is not shuffled)
Label(i) == IF i <= nPos THEN 1 ELSE 0

\* (outputs > 0.5).long()
Threshold(s) == IF s > 5 THEN 1 ELSE 0

\* per-example binary cross-entropy, in thousandths: -ln(0.7) and -ln(0.3)
ExampleLoss(s, l) == IF Threshold(s) = l THEN 357 ELSE 1204

RECURSIVE SumSeq(_)
SumSeq(s) == IF s = <<>> THEN 0 ELSE Head(s) + SumSeq(Tail(s))

\* round(float(v), 4) of the fraction num/den, in units of 1e-4
Round4(num, den) == (20000 * num + den) \div (2 * den)

\* sklearn's zero_division default: 0 when the denominator is 0
Ratio4(num, den) == IF den = 0 THEN 0 ELSE Round4(num, den)

Count(yt, yp, t, p) ==
    Cardinality({i \in 1..Len(yt) : yt[i] = t /\ yp[i] = p})

\* twice the number of correctly ranked (positive, negative) pairs, ties half
AucPairs(yt, ys) ==
    LET P == {i \in 1..Len(yt) : yt[i] = 1}
        N == {i \in 1..Len(yt) : yt[i] = 0}
    IN  2 * Cardinality({pr \in P \X N : ys[pr[1]] > ys[pr[2]]})
        + Cardinality({pr \in P \X N : ys[pr[1]] = ys[pr[2]]})

ComputeMetrics(yt, yp, ys) ==
    LET tp == Count(yt, yp, 1, 1)
        fp == Count(yt, yp, 0, 1)
        fn == Count(yt, yp, 1, 0)
        tn == Count(yt, yp, 0, 0)
        np == Cardinality({i \in 1..Len(yt) : yt[i] = 1})
    IN  [accuracy  |-> Ratio4(tp + tn, Len(yt)),
         f1        |-> Ratio4(2 * tp, 2 * tp + fp + fn),
         precision |-> Ratio4(tp, tp + fp),
         recall    |-> Ratio4(tp, tp + fn),
         roc_auc   |-> Ratio4(AucPairs(yt, ys), 2 * np * (Len(yt) - np))]

\* ---------------------------------------------------------------- rules
\* line 181 with the comparison turned round
SelectionFires_Reversed(lowest, v) == lowest = None \/ Less(lowest, v)

\* line 181 with <= for <
SelectionFires_NonStrict(lowest, v) == lowest = None \/ ~Less(lowest, v)

\* line 181
SelectionFires(lowest, v) == lowest = None \/ Less(v, lowest)

\* line 213 with > for ==
SaveCondition_Strict(lowest, v) == lowest # None /\ Less(v, lowest)

\* line 213
SaveCondition(lowest, v) == lowest # None /\ Same(lowest, v)

\* lines 130, 153: total = 0.0
ResetTotal(old) == 0

\* lines 154-156 with the lists kept from the epoch before
ResetList_Keep(old) == old

\* lines 154-156: y = []
ResetList(old) == <<>>

\* lines 158, 169 with an optimizer step in the validation loop
NoGradStep_Updates(p) == p + 1

\* lines 158, 169: a forward pass under torch.no_grad() leaves the parameters
NoGradStep(p) == p

\* line 148: optimizer.step()
OptimizerStep(p) == p + 1

\* lines 123-124
BatchCount(n, b) == 1 + n \div b
train_batches == BatchCount(nTrain, batch_size)
val_batches == BatchCount(nVal, batch_size)

\* ---------------------------------------------------------------- init
Init ==
    /\ num_epochs \in 0..MaxEpochs
    /\ batch_size \in 1..MaxBatchSize
    /\ wandb_enabled \in BOOLEAN
    /\ nTrain \in 1..MaxData
    /\ nVal \in 2..MaxData
    /\ nPos \in 1..(nVal - 1)
    /\ pc = "epoch"
    /\ epoch = 0
    /\ params = 0
    /\ lowest_validation_loss = None
    /\ metrics = EmptyMetrics
    /\ total_train_loss = 0
    /\ total_val_loss = 0
    /\ y_true = <<>>
    /\ y_score = <<>>
    /\ y_pred = <<>>
    /\ train_pos = 0
    /\ val_pos = 0
    /\ val_loss = None
    /\ disk \in {NoFile, StaleFile}
    /\ printed = None
    /\ train_n = 0
    /\ val_n = 0
    /\ train_iter = 0
    /\ val_iter = 0
    /\ val_params = {}
    /\ val_epoch = -1
    /\ val_history = <<>>
    /\ best_history = <<>>
    /\ metrics_history = <<>>
    /\ firedEpochs = {}
    /\ writes = <<>>
    /\ abort_cause = "none"

\* ---------------------------------------------------------------- actions
EndEpoch == /\ epoch' = epoch + 1
            /\ pc' = "epoch"

Abort(cause) == /\ pc' = "aborted"
                /\ abort_cause' = cause

\* lines 127-131: the next epoch begins; total_train_loss = 0.0, model.train()
StartEpoch ==
    /\ pc = "epoch"
    /\ epoch < num_epochs
    /\ total_train_loss' = ResetTotal(total_train_loss)
    /\ train_pos' = 0
    /\ train_n' = ResetTotal(train_n)
    /\ train_iter' = 0
    /\ pc' = "train"
    /\ UNCHANGED <<config, epoch, params, valAcc, best, disk, printed, writes,
                   abort_cause>>

\* line 127: range(num_epochs) is exhausted
ExitLoop ==
    /\ pc = "epoch"
    /\ epoch >= num_epochs
    /\ pc' = "report"
    /\ UNCHANGED <<config, epoch, params, trainAcc, valAcc, best, disk, printed,
                   writes, abort_cause>>

\* lines 132-150: one training batch, one optimizer step
TrainStep ==
    /\ pc = "train"
    /\ train_pos < nTrain
    /\ \E loss \in TrainLossItems :
         LET len == Min2(batch_size, nTrain - train_pos)
         IN  /\ params' = OptimizerStep(params)
             /\ total_train_loss' = total_train_loss + loss * len
             /\ train_pos' = train_pos + len
             /\ train_n' = train_n + len
             /\ train_iter' = train_iter + 1
    /\ UNCHANGED <<config, pc, epoch, valAcc, best, disk, printed, writes,
                   abort_cause>>

\* lines 153-158: the training loader is exhausted; the validation
\* accumulators are reset, model.eval()
ValidationStart ==
    /\ pc = "train"
    /\ train_pos = nTrain
    /\ total_val_loss' = ResetTotal(total_val_loss)
    /\ y_true' = ResetList(y_true)
    /\ y_score' = ResetList(y_score)
    /\ y_pred' = ResetList(y_pred)
    /\ val_pos' = 0
    /\ val_n' = ResetTotal(val_n)
    /\ val_iter' = 0
    /\ val_params' = {}
    /\ val_epoch' = epoch
    /\ pc' = "validate"
    /\ UNCHANGED <<config, epoch, params, trainAcc, best, disk, printed, writes,
                   abort_cause>>

\* lines 159-175: one validation batch, forward only (torch.no_grad())
ValStep ==
    /\ pc = "validate"
    /\ val_pos < nVal
    /\ LET len == Min2(batch_size, nVal - val_pos)
       IN  \E outputs \in [1..len -> Scores] :
             LET labels == [i \in 1..len |-> Label(val_pos + i)]
                 losses == [i \in 1..len |-> ExampleLoss(outputs[i], labels[i])]
             IN  /\ total_val_loss' = total_val_loss + SumSeq(losses)
                 /\ y_true' = y_true \o labels
                 /\ y_score' = y_score \o outputs
                 /\ y_pred' = y_pred \o [i \in 1..len |-> Threshold(outputs[i])]
                 /\ val_pos' = val_pos + len
                 /\ val_n' = val_n + len
                 /\ val_iter' = val_iter + 1
                 /\ val_params' = val_params \cup {params}
                 /\ params' = NoGradStep(params)
    /\ UNCHANGED <<config, pc, epoch, trainAcc, val_epoch, best, disk, printed,
                   writes, abort_cause>>

\* lines 178-192: the epoch's losses and the selection rule
Select ==
    /\ pc = "validate"
    /\ val_pos = nVal
    /\ LET v == <<total_val_loss, nVal>>
           m == ComputeMetrics(y_true, y_pred, y_score)
       IN  /\ val_loss' = v
           /\ val_history' = Append(val_history, v)
           /\ metrics_history' = Append(metrics_history, m)
           /\ IF SelectionFires(lowest_validation_loss, v)
              THEN /\ lowest_validation_loss' = v
                   /\ metrics' = m
                   /\ firedEpochs' = firedEpochs \cup {epoch}
              ELSE UNCHANGED <<lowest_validation_loss, metrics, firedEpochs>>
           /\ best_history' = Append(best_history, lowest_validation_loss')
    /\ pc' = "log"
    /\ UNCHANGED <<config, epoch, params, trainAcc, valAcc, disk, printed, writes,
                   abort_cause>>

\* line 194: wandb is off
LogSkip ==
    /\ pc = "log"
    /\ ~wandb_enabled
    /\ pc' = "save"
    /\ UNCHANGED <<config, epoch, params, trainAcc, valAcc, best, disk, printed,
                   writes, abort_cause>>

\* lines 194-210: wandb is on and the logging block returns
LogOk ==
    /\ pc = "log"
    /\ wandb_enabled
    /\ pc' = "save"
    /\ UNCHANGED <<config, epoch, params, trainAcc, valAcc, best, disk, printed,
                   writes, abort_cause>>

\* lines 194-210: wandb is on and the logging block raises; nothing catches it
LogFail ==
    /\ pc = "log"
    /\ wandb_enabled
    /\ Abort("tracker")
    /\ UNCHANGED <<config, epoch, params, trainAcc, valAcc, best, disk, printed,
                   writes>>

\* lines 213-215: the save condition holds; the model is scripted
SaveEnter ==
    /\ pc = "save"
    /\ SaveCondition(lowest_validation_loss, val_loss)
    /\ pc' = "unlink"
    /\ UNCHANGED <<config, epoch, params, trainAcc, valAcc, best, disk, printed,
                   writes, abort_cause>>

\* lines 213-217 with the unlink hoisted above the save condition
SaveSkip_Unlinks ==
    /\ pc = "save"
    /\ ~SaveCondition(lowest_validation_loss, val_loss)
    /\ disk' = NoFile
    /\ EndEpoch
    /\ UNCHANGED <<config, params, trainAcc, valAcc, best, printed, writes,
                   abort_cause>>

\* line 213: the save condition does not hold; the epoch ends
SaveSkip ==
    /\ pc = "save"
    /\ ~SaveCondition(lowest_validation_loss, val_loss)
    /\ EndEpoch
    /\ UNCHANGED <<config, params, trainAcc, valAcc, best, disk, printed, writes,
                   abort_cause>>

\* lines 216-217: a file exists under the model path and is removed
UnlinkOk ==
    /\ pc = "unlink"
    /\ disk.state # "none"
    /\ disk' = NoFile
    /\ pc' = "write"
    /\ UNCHANGED <<config, epoch, params, trainAcc, valAcc, best, printed, writes,
                   abort_cause>>

\* line 217: unlink raises (file-system error); the file stays
UnlinkFail ==
    /\ pc = "unlink"
    /\ disk.state # "none"
    /\ Abort("unlink")
    /\ UNCHANGED <<config, epoch, params, trainAcc, valAcc, best, disk, printed,
                   writes>>

\* line 216: no file exists under the model path
UnlinkSkip ==
    /\ pc = "unlink"
    /\ disk.state = "none"
    /\ pc' = "write"
    /\ UNCHANGED <<config, epoch, params, trainAcc, valAcc, best, disk, printed,
                   writes, abort_cause>>

\* line 218: sm.save creates the file and starts writing it
SaveOpen ==
    /\ pc = "write"
    /\ disk' = [state |-> "partial", params |-> params, epoch |-> epoch]
    /\ pc' = "writing"
    /\ UNCHANGED <<config, epoch, params, trainAcc, valAcc, best, printed, writes,
                   abort_cause>>

\* line 218: sm.save cannot create the file
SaveOpenFail ==
    /\ pc = "write"
    /\ Abort("save")
    /\ UNCHANGED <<config, epoch, params, trainAcc, valAcc, best, disk, printed,
                   writes>>

\* line 218: sm.save returns; the epoch ends
SaveFinish ==
    /\ pc = "writing"
    /\ disk' = [disk EXCEPT !.state = "complete"]
    /\ writes' = Append(writes, epoch)
    /\ EndEpoch
    /\ UNCHANGED <<config, params, trainAcc, valAcc, best, printed, abort_cause>>

\* line 218: sm.save raises while writing; the partial file stays
SaveFail ==
    /\ pc = "writing"
    /\ Abort("save")
    /\ UNCHANGED <<config, epoch, params, trainAcc, valAcc, best, disk, printed,
                   writes>>

\* lines 220-221: the model name and the metrics are printed
Report ==
    /\ pc = "report"
    /\ printed' = metrics
    /\ pc' = "done"
    /\ UNCHANGED <<config, epoch, params, trainAcc, valAcc, best, disk, writes,
                   abort_cause>>

Next ==
    \/ StartEpoch
    \/ ExitLoop
    \/ TrainStep
    \/ ValidationStart
    \/ ValStep
    \/ Select
    \/ LogSkip
    \/ LogOk
    \/ LogFail
    \/ SaveEnter
    \/ SaveSkip
    \/ UnlinkOk
    \/ UnlinkFail
    \/ UnlinkSkip
    \/ SaveOpen
    \/ SaveOpenFail
    \/ SaveFinish
    \/ SaveFail
    \/ Report

Spec == Init /\ [][Next]_vars

\* ---------------------------------------------------------------- helpers
SeqToSet(s) == {s[i] : i \in DOMAIN s}

NoDuplicates(s) == \A i, j \in DOMAIN s : s[i] = s[j] => i = j

MaxOf(S) == CHOOSE x \in S : \A y \in S : y <= x

CeilDiv(n, b) == (n + b - 1) \div b

\* the least fraction of a non-empty sequence
MinOf(h) == h[CHOOSE i \in DOMAIN h : \A j \in DOMAIN h : ~Less(h[j], h[i])]

\* the first position holding the least fraction of a non-empty sequence
EarliestArgMin(h) ==
    CHOOSE i \in DOMAIN h :
        /\ \A j \in DOMAIN h : ~Less(h[j], h[i])
        /\ \A j \in DOMAIN h : j < i => Less(h[i], h[j])

\* the epoch in which the best state was last updated
LastFired == MaxOf(firedEpochs)

\* ---------------------------------------------------------------- claims

\* C1: at every epoch boundary the epochs that wrote a checkpoint are exactly
\* the epochs in which the selection rule fired; a tie with the recorded best
\* neither updates the best state nor writes.
C1_WriteIffSelectionFires ==
    pc = "epoch" => SeqToSet(writes) = firedEpochs

\* C2: at every epoch boundary a checkpoint written by this run holds the
\* parameters of the epoch in which lowest_validation_loss and the metrics
\* snapshot were last updated.
C2_CheckpointEpochIsMetricsEpoch ==
    (pc = "epoch" /\ disk.state = "complete" /\ disk.epoch >= 0)
        => disk.epoch = LastFired

\* C3: lowest_validation_loss is unset until the first validation loss is
\* computed, is the first epoch's loss after the first epoch, never increases
\* from one epoch to the next, and always is the minimum of the validation
\* losses computed so far.
C3_LowestIsRunningMinimum ==
    /\ (val_history = <<>>) <=> (lowest_validation_loss = None)
    /\ val_history # <<>> =>
         /\ lowest_validation_loss = MinOf(val_history)
         /\ best_history[1] = val_history[1]
    /\ Len(best_history) = Len(val_history)
    /\ \A i \in 2..Len(best_history) :
         ~Less(best_history[i - 1], best_history[i])

C3_Witness ==
    /\ Len(val_history) = 3
    /\ Less(val_history[2], val_history[1])
    /\ Less(val_history[2], val_history[3])
    /\ lowest_validation_loss = val_history[2]

\* C4 as stated: for every configured number of epochs a run that completes
\* normally has written at least 1 and at most num_epochs checkpoints, at most
\* one per epoch.
C4_Original ==
    /\ NoDuplicates(writes)
    /\ pc = "done" => (1 <= Len(writes) /\ Len(writes) <= num_epochs)

\* C4 amended: at most one write per epoch and never more writes than epochs
\* run; a run of at least one epoch that completes normally has written at
\* least once.
C4_WritesBetweenOneAndEpochs ==
    /\ NoDuplicates(writes)
    /\ Len(writes) <= num_epochs
    /\ Len(writes) <= epoch
    /\ (pc = "done" /\ num_epochs >= 1) => Len(writes) >= 1

C4_Witness ==
    /\ pc = "done"
    /\ num_epochs = 3
    /\ Len(writes) = 2

\* C5: the metrics printed at run end are those computed from the validation
\* predictions of the earliest epoch holding the least validation loss of the
\* run; an epoch that is not strictly lower leaves lowest_validation_loss and
\* the metrics snapshot as they were.
C5_ReportedMetricsOfEarliestBest ==
    val_history # <<>> =>
        LET e == EarliestArgMin(val_history)
        IN  /\ lowest_validation_loss = val_history[e]
            /\ metrics = metrics_history[e]
            /\ pc = "done" => printed = metrics_history[e]

C5_Witness ==
    /\ pc = "done"
    /\ Len(val_history) = 3
    /\ Less(val_history[2], val_history[1])
    /\ Same(val_history[2], val_history[3])
    /\ metrics_history[2] # metrics_history[3]
    /\ printed = metrics_history[2]

\* C6: the tracker does not change what the loop saves: when the selection
\* rule fired in an epoch, that epoch's checkpoint is written even if the
\* logging step of the epoch fails.
C6_TrackerFailureKeepsCheckpoint ==
    (abort_cause = "tracker" /\ epoch \in firedEpochs)
        => epoch \in SeqToSet(writes)

\* C7: no validation step of an epoch runs before its training steps are
\* over, the parameters do not change from the end of training to the
\* checkpoint write, and the checkpoint of an epoch holds exactly the
\* parameters every validation batch of that epoch was run on.
C7_CheckpointHoldsValidatedParams ==
    /\ pc = "train" => val_epoch < epoch
    /\ pc \in {"validate", "log", "save", "unlink", "write", "writing"}
         => (val_epoch = epoch /\ val_params \subseteq {params})
    /\ (disk.state = "complete" /\ disk.epoch >= 0 /\ disk.epoch = val_epoch)
         => val_params = {disk.params}

C7_Witness ==
    /\ disk.state = "complete"
    /\ disk.epoch = 1
    /\ val_epoch = 1
    /\ val_iter = 2
    /\ train_iter = 2

\* C8: when the selection rule is evaluated the collected labels, scores and
\* predictions each number the validation set size, and the batch sizes
\* accumulated into the two loss totals sum to the validation and training
\* set sizes: nothing is left over from earlier epochs.
C8_AccumulatorsCoverOneEpoch ==
    (pc = "validate" /\ val_pos = nVal) =>
        /\ Len(y_true) = nVal
        /\ Len(y_score) = nVal
        /\ Len(y_pred) = nVal
        /\ y_true = [i \in 1..nVal |-> Label(i)]
        /\ val_n = nVal
        /\ train_n = nTrain

C8_Witness ==
    /\ pc = "validate"
    /\ val_pos = nVal
    /\ epoch = 2
    /\ val_iter = 2
    /\ train_iter = 2

\* C9: each pass iterates ceil(datasetSize / batchSize) batches, and
\* train_batches and val_batches equal the number of batches iterated.
C9_BatchCountsMatchIteration ==
    /\ (pc = "train" /\ train_pos = nTrain) =>
         /\ train_iter = CeilDiv(nTrain, batch_size)
         /\ train_batches = train_iter
    /\ (pc = "validate" /\ val_pos = nVal) =>
         /\ val_iter = CeilDiv(nVal, batch_size)
         /\ val_batches = val_iter

\* C10 as stated: once this run has written a checkpoint, a complete
\* checkpoint file exists in every later state, also inside a later overwrite
\* and after a later write fails.
C10_Original ==
    Len(writes) > 0 => disk.state = "complete"

\* C10 amended: once this run has written a checkpoint, a complete checkpoint
\* file exists in every later state except from the unlink of a later
\* overwrite until its save returns, and except after a later save fails.
C10_CompleteOutsideOverwrite ==
    (/\ Len(writes) > 0
     /\ pc \notin {"write", "writing"}
     /\ abort_cause # "save")
        => disk.state = "complete"

C10_Witness ==
    /\ Len(writes) = 2
    /\ abort_cause = "unlink"
    /\ disk.state = "complete"
    /\ disk.epoch = 1

====
